---- MODULE Spec2Model ----
(***************************************************************************)
(* faststringmap: a read-only map from strings to values, stored as a      *)
(* byte-indexed trie in one flat slice of byteValue structs.               *)
(*                                                                         *)
(* Modelled here: the generic Map and MapFaster of v2 (the block-based     *)
(* builder, the lookups, the sorted key listing, Empty), the Uint32Store   *)
(* of v1 that is built with append, and the caller's Go map.               *)
(*                                                                         *)
(* A Go string and a Go []byte are both sequences of bytes 0..255; the     *)
(* model writes them as sequences over 0..255.  Go indexes from 0, TLA+    *)
(* sequences from 1: s[i] in Go is s[i+1] here.  A Go run-time panic       *)
(* (index out of range, slice bounds out of range) is the result Panic.    *)
(***************************************************************************)
EXTENDS Integers, Sequences, FiniteSets

(***************************************************************************)
(* Bounds of the model.                                                    *)
(***************************************************************************)
MaxSrcBytes == 3    \* the keys of a source have at most this many bytes in all
MaxReaderSrcBytes == 2  \* and at most this many where goroutines read concurrently

\* The bytes keys are made of: the two ends of the byte range and one near
\* the top, so that sibling bytes span 3 (253..255, with 254 an unused gap),
\* 254 (0..253) and 256 (0..255).
Alphabet == {0, 253, 255}
\* The bytes queries are made of: those of the keys and the one in the gap.
QueryBytes == Alphabet \cup {254}

ByteRange == 256            \* a Go byte holds 0..255

\* the strings over an alphabet that are lo..hi bytes long
Strings(alphabet, lo, hi) == UNION {[1..k -> alphabet] : k \in lo..hi}

\* The values of a source: the zero value and another.  The code copies
\* values and never looks into them.
Values == {0, 1}

\* the prefixes of the strings of S, the empty one and the strings themselves
\* among them
Prefixes(S) == {<<>>} \cup UNION {{SubSeq(k, 1, n) : n \in 0..Len(k)} : k \in S}

\* The queries looked up in a map built from the keys S: every prefix of a
\* key, alone and followed by one or two bytes.  A lookup has returned at
\* the latest one byte after the query leaves the prefixes of the keys: it
\* stops at a byte outside the reserved range of children, and a byte inside
\* it that no key continues with leads to a byteValue without children.
QueriesOf(S) ==
    {p \o e : p \in Prefixes(S),
              e \in {<<>>} \cup {<<b>> : b \in QueryBytes}
                          \cup {<<b, c>> : b \in QueryBytes, c \in QueryBytes}}

RECURSIVE TotalLen(_)
\* the bytes of a set of strings, in all
TotalLen(S) ==
    IF S = {} THEN 0
    ELSE LET k == CHOOSE x \in S : TRUE IN Len(k) + TotalLen(S \ {k})

RECURSIVE GrowKeySets(_, _)
\* the sets Ss of non-empty keys, and those got from them by adding a key
\* that the bytes left over allow, i times
GrowKeySets(Ss, i) ==
    IF i = 0 THEN Ss
    ELSE GrowKeySets(
             Ss \cup UNION {{S \cup {k} :
                                k \in Strings(Alphabet, 1, MaxSrcBytes - TotalLen(S))} :
                            S \in Ss},
             i - 1)

\* the sets of distinct keys of at most MaxSrcBytes bytes in all, without
\* and with the empty key
KeySets ==
    LET nonEmpty == GrowKeySets({{}}, MaxSrcBytes)
    IN  nonEmpty \cup {S \cup {<<>>} : S \in nonEmpty}

\* A source is a Go map from string to value (MapSource, mapSlice with all
\* of m enumerated, exampleSource).
Sources == UNION {[S -> Values] : S \in KeySets}

(***************************************************************************)
(* Go arithmetic on a byte: the result modulo 256.                         *)
(***************************************************************************)
ByteOf(x) == ((x % ByteRange) + ByteRange) % ByteRange
\* uint32(x) of an int x: the stores of the model hold far fewer than 2^32
\* byteValues (2^32 itself is beyond the integers of the model checker), so
\* the conversion never wraps here.
Uint32Of(x) == x

(***************************************************************************)
(* Go's < on strings: byte-wise lexicographic, a proper prefix is smaller. *)
(***************************************************************************)
RECURSIVE StrLessFrom(_, _, _)
StrLessFrom(s, t, i) ==
    IF i > Len(t) THEN FALSE
    ELSE IF i > Len(s) THEN TRUE
    ELSE IF s[i] # t[i] THEN s[i] < t[i]
    ELSE StrLessFrom(s, t, i + 1)

StrLess(s, t) == StrLessFrom(s, t, 1)

(***************************************************************************)
(* byteValue, and the zero value Go gives a fresh one.                     *)
(***************************************************************************)
ZeroValue == 0

zeroByteValue ==
    [nextLo |-> 0, nextLen |-> 0, nextOffset |-> 0, valid |-> FALSE, value |-> ZeroValue]

\* n byteValues that are valid from the start
ValidFromTheStart(n) == [i \in 1..n |-> [zeroByteValue EXCEPT !.valid = TRUE]]

Zeros(n) == [i \in 1..n |-> zeroByteValue]

\* What a function that can panic returns: Ok(x) when it returned x, Panic
\* when it panicked.
Ok(x) == [panic |-> FALSE, val |-> x]
Panic == [panic |-> TRUE]

(***************************************************************************)
(* Source.AppendKeys and Source.Get.                                       *)
(***************************************************************************)
\* MapSource.AppendKeys: the keys of the map, in any order, after a.
AppendKeys(m, a) ==
    {a \o p : p \in {q \in [1..Cardinality(DOMAIN m) -> DOMAIN m] :
                        \A i, j \in DOMAIN q : i # j => q[i] # q[j]}}

\* a Get that does not read the source
GetZeroValue(m, s) == ZeroValue

\* MapSource.Get: m[s], the zero value for a key the map lacks.
Get(m, s) == IF s \in DOMAIN m THEN m[s] ELSE ZeroValue

\* m[k] = v on a Go map: the map holds k with v afterwards, and the other
\* keys as before
MapAssign(m, k, v) ==
    [x \in DOMAIN m \cup {k} |-> IF x = k THEN v ELSE m[x]]

\* delete(m, k) on a Go map; no-op when m does not hold k
MapDelete(m, k) == [x \in DOMAIN m \ {k} |-> m[x]]

(***************************************************************************)
(* sort.Slice(keys, less) with less = keys[i] < keys[j]: an insertion sort *)
(* by StrLess.                                                             *)
(***************************************************************************)
RECURSIVE InsertSorted(_, _)
InsertSorted(sorted, k) ==
    IF sorted = <<>> THEN <<k>>
    ELSE IF StrLess(k, Head(sorted)) THEN <<k>> \o sorted
    ELSE <<Head(sorted)>> \o InsertSorted(Tail(sorted), k)

RECURSIVE SortSlice(_)
SortSlice(keys) ==
    IF keys = <<>> THEN <<>>
    ELSE InsertSorted(SortSlice(Tail(keys)), Head(keys))

(***************************************************************************)
(* The block-based builder of v2.                                          *)
(*   b.all  : the blocks, each [data, cap]: a slice's elements and its     *)
(*            capacity                                                     *)
(*   b.len  : the slots handed out so far                                  *)
(*   b.panic: the build has panicked                                       *)
(* A *byteValue into a block is [blk, idx]: element idx of b.all[blk].     *)
(* A slice of a block is [blk, off, len]: len elements after the first     *)
(* off of b.all[blk].                                                      *)
(***************************************************************************)
maxBuildBufSize == 1048576

RECURSIVE firstBufSizeLoop(_, _)
firstBufSizeLoop(size, mapSize) ==
    IF size < mapSize /\ size < maxBuildBufSize
    THEN firstBufSizeLoop(size * 2, mapSize)
    ELSE size

firstBufSize(mapSize) == firstBufSizeLoop(16, mapSize)

RECURSIVE allocCapLoop(_, _)
allocCapLoop(newCap, n) ==
    IF newCap < n THEN allocCapLoop(newCap * 2, n) ELSE newCap

\* builder.alloc with the capacity the current block has left added to
\* b.len when it starts a new block
allocCountsCapacity(b, nByteValues) ==
    LET n      == nByteValues
        last   == Len(b.all)
        cur    == b.all[last]
        curCap == cur.cap
        curLen == Len(cur.data)
        dbl    == allocCapLoop(curCap * 2, n)
        newCap == IF dbl > maxBuildBufSize THEN maxBuildBufSize ELSE dbl
    IN  IF curCap - curLen >= n
        THEN [b    |-> [b EXCEPT !.len = b.len + n,
                                 !.all[last].data = cur.data \o Zeros(n)],
              next |-> [blk |-> last, off |-> curLen, len |-> n]]
        ELSE [b    |-> [b EXCEPT !.len = b.len + n + (curCap - curLen),
                                 !.all = Append(b.all, [data |-> Zeros(n), cap |-> newCap])],
              next |-> [blk |-> last + 1, off |-> 0, len |-> n]]

\* builder.alloc: the builder afterwards and the slice handed out
alloc(b, nByteValues) ==
    LET n      == nByteValues
        last   == Len(b.all)
        cur    == b.all[last]
        curCap == cur.cap
        curLen == Len(cur.data)
        dbl    == allocCapLoop(curCap * 2, n)
        newCap == IF dbl > maxBuildBufSize THEN maxBuildBufSize ELSE dbl
    IN  IF curCap - curLen >= n
        THEN [b    |-> [b EXCEPT !.len = b.len + n,
                                 !.all[last].data = cur.data \o Zeros(n)],
              next |-> [blk |-> last, off |-> curLen, len |-> n]]
        ELSE IF n > newCap
        THEN [b    |-> [b EXCEPT !.len = b.len + n, !.panic = TRUE],
              next |-> [blk |-> last, off |-> 0, len |-> 0]]
        ELSE [b    |-> [b EXCEPT !.len = b.len + n,
                                 !.all = Append(b.all, [data |-> Zeros(n), cap |-> newCap])],
              next |-> [blk |-> last + 1, off |-> 0, len |-> n]]

\* the byteValue a *byteValue points at
Deref(b, bv) == b.all[bv.blk].data[bv.idx]

\* an assignment to fields of the byteValue a *byteValue points at
Assign(b, bv, node) == [b EXCEPT !.all[bv.blk].data[bv.idx] = node]

RECURSIVE sameByteHi(_, _, _, _)
\* the inner for loop of makeByteValue: the end of the run of strings that
\* have the byte of a[i] at byteIndex (i and the result count from 0)
sameByteHi(a, i, iSameByteHi, byteIndex) ==
    IF iSameByteHi < Len(a) /\ a[iSameByteHi + 1][byteIndex + 1] = a[i + 1][byteIndex + 1]
    THEN sameByteHi(a, i, iSameByteHi + 1, byteIndex)
    ELSE iSameByteHi

\* history: next := b.alloc(bv.nextLen) handed out the slice next for the
\* children of *bv
Handed(b, bv, next) == [b EXCEPT !.handed = Append(@, [bv |-> bv, next |-> next])]

RECURSIVE makeByteValue(_, _, _, _, _)
RECURSIVE makeByteValueLoop(_, _, _, _, _, _, _)

\* the outer for loop of builder.makeByteValue, from index i (from 0)
makeByteValueLoop(b, src, bv, next, a, byteIndex, i) ==
    IF b.panic \/ i >= Len(a) THEN b
    ELSE LET iSameByteHi == sameByteHi(a, i, i + 1, byteIndex)
             ni == ByteOf(a[i + 1][byteIndex + 1] - Deref(b, bv).nextOffset)
         IN  IF ni >= next.len          \* &next[ni]: index out of range
             THEN [b EXCEPT !.panic = TRUE]
             ELSE makeByteValueLoop(
                      makeByteValue(b, src, [blk |-> next.blk, idx |-> next.off + ni + 1],
                                    SubSeq(a, i + 1, iSameByteHi), byteIndex + 1),
                      src, bv, next, a, byteIndex, iSameByteHi)

\* makeByteValue with a return at the end of its first if statement: a key
\* that ends at *bv keeps the strings that continue it out of the map
makeByteValueStopsAtKey(b, src, bv, a, byteIndex) ==
    IF b.panic THEN b
    ELSE IF a = <<>> THEN [b EXCEPT !.panic = TRUE]
    ELSE IF Len(a[1]) = byteIndex
    THEN Assign(b, bv, [Deref(b, bv) EXCEPT !.valid = TRUE, !.value = Get(src, a[1])])
    ELSE IF \E j \in 1..Len(a) : Len(a[j]) <= byteIndex
    THEN [b EXCEPT !.panic = TRUE]
    ELSE LET nextOffset == a[1][byteIndex + 1]
             nextLen    == ByteOf(a[Len(a)][byteIndex + 1] - nextOffset + 1)
             b2 == Assign(b, bv, [Deref(b, bv) EXCEPT !.nextOffset = nextOffset,
                                                      !.nextLen    = nextLen,
                                                      !.nextLo     = Uint32Of(b.len)])
             r  == alloc(b2, nextLen)
         IN  makeByteValueLoop(Handed(r.b, bv, r.next), src, bv, r.next, a, byteIndex, 0)

\* builder.makeByteValue: the builder after initialising *bv for the sorted
\* strings a, considering their bytes at byteIndex
makeByteValue(b, src, bv, a, byteIndex) ==
    IF b.panic THEN b
    ELSE IF a = <<>> THEN [b EXCEPT !.panic = TRUE]     \* a[0]: index out of range
    ELSE LET ends == Len(a[1]) = byteIndex
             b1   == IF ends
                     THEN Assign(b, bv, [Deref(b, bv) EXCEPT !.valid = TRUE,
                                                             !.value = Get(src, a[1])])
                     ELSE b
             a1   == IF ends THEN Tail(a) ELSE a
         IN  IF a1 = <<>> THEN b1
             ELSE IF \E j \in 1..Len(a1) : Len(a1[j]) <= byteIndex
             THEN [b1 EXCEPT !.panic = TRUE]            \* a[j][byteIndex]: index out of range
             ELSE LET nextOffset == a1[1][byteIndex + 1]
                      nextLen    == ByteOf(a1[Len(a1)][byteIndex + 1] - nextOffset + 1)
                      b2 == Assign(b1, bv, [Deref(b1, bv) EXCEPT !.nextOffset = nextOffset,
                                                                 !.nextLen    = nextLen,
                                                                 !.nextLo     = Uint32Of(b1.len)])
                      r  == alloc(b2, nextLen)
                  IN  makeByteValueLoop(Handed(r.b, bv, r.next), src, bv, r.next,
                                        a1, byteIndex, 0)

\* a copy of the first block only
FlattenFirstBlock(all, i) == all[1].data

RECURSIVE Flatten(_, _)
\* the copy of all blocks to one slice, from block i
Flatten(all, i) ==
    IF i > Len(all) THEN <<>> ELSE all[i].data \o Flatten(all, i + 1)

\* the builder before build has made one
NoBuilder == [all |-> <<>>, len |-> 0, panic |-> FALSE, handed |-> <<>>]

\* build: the store for the sorted keys, and in b the builder as build left it
build(keys, src) ==
    LET b0 == [all   |-> <<[data |-> Zeros(1), cap |-> firstBufSize(Len(keys))]>>,
               len   |-> 1,
               panic |-> FALSE,
               handed |-> <<>>]
        b  == makeByteValue(b0, src, [blk |-> 1, idx |-> 1], keys, 0)
    IN  [panic |-> b.panic, val |-> Flatten(b.all, 1), b |-> b]

\* NewMap without its test for a source without keys
NewMapOfAnySource(keys, srcMap) == build(SortSlice(keys), srcMap)

\* NewMap for the keys as AppendKeys returned them: the Map's store, and the
\* builder it was built with
NewMap(keys, srcMap) ==
    IF Len(keys) > 0
    THEN build(SortSlice(keys), srcMap)
    ELSE [panic |-> FALSE, val |-> <<zeroByteValue>>, b |-> NoBuilder]

(***************************************************************************)
(* Uint32Store of v1, built with append.  m.store is a slice of the array  *)
(* arrays[cur], of which it is all the elements, with capacity cap; an     *)
(* append without room makes a new array and leaves the old one where it   *)
(* is, so that a *byteValue taken before, [arr, idx], still points into    *)
(* the old one.  How much capacity append gives a new array is up to the   *)
(* Go runtime: the least that holds the elements, or more.                 *)
(***************************************************************************)
GrowthPolicies == {"exact", "double"}

\* the capacity of the array that append makes for needed elements
AppendCap(policy, oldCap, needed) ==
    IF policy = "double" /\ 2 * oldCap > needed THEN 2 * oldCap ELSE needed

\* m.store = append(m.store, make([]byteValue, n)...)
StoreAppend(st, n, policy) ==
    LET old == st.arrays[st.cur]
    IN  IF st.cap - Len(old) >= n
        THEN [st EXCEPT !.arrays[st.cur] = old \o Zeros(n)]
        ELSE [st EXCEPT !.arrays = Append(st.arrays, old \o Zeros(n)),
                        !.cur    = Len(st.arrays) + 1,
                        !.cap    = AppendCap(policy, st.cap, Len(old) + n)]

\* the byteValue a *byteValue points at, and an assignment through it
StoreDeref(st, bv) == st.arrays[bv.arr][bv.idx]
StoreAssign(st, bv, node) == [st EXCEPT !.arrays[bv.arr][bv.idx] = node]

RECURSIVE Uint32StoreMakeByteValue(_, _, _, _, _, _)
RECURSIVE Uint32StoreMakeByteValueLoop(_, _, _, _, _, _, _)

\* the outer for loop of Uint32Store.makeByteValue, from index i (from 0)
Uint32StoreMakeByteValueLoop(st, src, bv, a, byteIndex, policy, i) ==
    IF st.panic \/ i >= Len(a) THEN st
    ELSE LET iSameByteHi == sameByteHi(a, i, i + 1, byteIndex)
             nextStoreIndex ==
                 Uint32Of(StoreDeref(st, bv).nextLo
                          + ByteOf(a[i + 1][byteIndex + 1] - StoreDeref(st, bv).nextOffset))
         IN  IF nextStoreIndex >= Len(st.arrays[st.cur])    \* index out of range
             THEN [st EXCEPT !.panic = TRUE]
             ELSE Uint32StoreMakeByteValueLoop(
                      Uint32StoreMakeByteValue(st, src,
                                               [arr |-> st.cur, idx |-> nextStoreIndex + 1],
                                               SubSeq(a, i + 1, iSameByteHi),
                                               byteIndex + 1, policy),
                      src, bv, a, byteIndex, policy, iSameByteHi)

\* Uint32Store.makeByteValue with the append moved before the assignments
\* to bv.nextOffset, bv.nextLen and bv.nextLo
Uint32StoreMakeByteValueAppendsFirst(st, src, bv, a, byteIndex, policy) ==
    IF st.panic THEN st
    ELSE IF a = <<>> THEN [st EXCEPT !.panic = TRUE]
    ELSE LET ends == Len(a[1]) = byteIndex
             st1  == IF ends
                     THEN StoreAssign(st, bv, [StoreDeref(st, bv) EXCEPT
                                                  !.valid = TRUE,
                                                  !.value = Uint32Of(Get(src, a[1]))])
                     ELSE st
             a1   == IF ends THEN Tail(a) ELSE a
         IN  IF a1 = <<>> THEN st1
             ELSE IF \E j \in 1..Len(a1) : Len(a1[j]) <= byteIndex
             THEN [st1 EXCEPT !.panic = TRUE]
             ELSE LET nextOffset == a1[1][byteIndex + 1]
                      nextLen    == ByteOf(a1[Len(a1)][byteIndex + 1] - nextOffset + 1)
                      st2 == StoreAppend(st1, nextLen, policy)
                      st3 == StoreAssign(st2, bv,
                                 [StoreDeref(st2, bv) EXCEPT
                                     !.nextOffset = nextOffset,
                                     !.nextLen    = nextLen,
                                     !.nextLo     = Uint32Of(Len(st1.arrays[st1.cur]))])
                  IN  Uint32StoreMakeByteValueLoop(st3, src, bv, a1, byteIndex, policy, 0)

\* Uint32Store.makeByteValue: the store after initialising *bv for the
\* sorted strings a, considering their bytes at byteIndex
Uint32StoreMakeByteValue(st, src, bv, a, byteIndex, policy) ==
    IF st.panic THEN st
    ELSE IF a = <<>> THEN [st EXCEPT !.panic = TRUE]    \* a[0]: index out of range
    ELSE LET ends == Len(a[1]) = byteIndex
             st1  == IF ends
                     THEN StoreAssign(st, bv, [StoreDeref(st, bv) EXCEPT
                                                  !.valid = TRUE,
                                                  !.value = Uint32Of(Get(src, a[1]))])
                     ELSE st
             a1   == IF ends THEN Tail(a) ELSE a
         IN  IF a1 = <<>> THEN st1
             ELSE IF \E j \in 1..Len(a1) : Len(a1[j]) <= byteIndex
             THEN [st1 EXCEPT !.panic = TRUE]           \* a[j][byteIndex]: index out of range
             ELSE LET nextOffset == a1[1][byteIndex + 1]
                      nextLen    == ByteOf(a1[Len(a1)][byteIndex + 1] - nextOffset + 1)
                      st2 == StoreAssign(st1, bv,
                                 [StoreDeref(st1, bv) EXCEPT
                                     !.nextOffset = nextOffset,
                                     !.nextLen    = nextLen,
                                     !.nextLo     = Uint32Of(Len(st1.arrays[st1.cur]))])
                      st3 == StoreAppend(st2, nextLen, policy)
                  IN  Uint32StoreMakeByteValueLoop(st3, src, bv, a1, byteIndex, policy, 0)

\* NewUint32Store for the keys as AppendKeys returned them: m.store, and in
\* st the arrays as the calls left them
NewUint32Store(keys, srcMap, policy) ==
    LET st0 == [arrays |-> <<Zeros(1)>>, cur |-> 1, cap |-> 1, panic |-> FALSE]
        st  == IF Len(keys) > 0
               THEN Uint32StoreMakeByteValue(st0, srcMap, [arr |-> 1, idx |-> 1],
                                             SortSlice(keys), 0, policy)
               ELSE st0
    IN  [panic |-> st.panic, val |-> st.arrays[st.cur], st |-> st]

RECURSIVE Uint32StoreLookupStringFrom(_, _, _, _)
\* the for loop of Uint32Store.LookupString
Uint32StoreLookupStringFrom(store, s, i, bv) ==
    IF i < Len(s)
    THEN LET b  == s[i + 1]
             ni == ByteOf(b - store[bv + 1].nextOffset)
         IN  IF b < store[bv + 1].nextOffset
             THEN Ok([value |-> 0, found |-> FALSE])
             ELSE IF ni >= store[bv + 1].nextLen
             THEN Ok([value |-> 0, found |-> FALSE])
             ELSE IF store[bv + 1].nextLo + ni >= Len(store)
             THEN Panic
             ELSE Uint32StoreLookupStringFrom(store, s, i + 1, store[bv + 1].nextLo + ni)
    ELSE Ok([value |-> store[bv + 1].value, found |-> store[bv + 1].valid])

\* Uint32Store.LookupString
Uint32StoreLookupString(store, s) ==
    IF Len(store) = 0 THEN Panic ELSE Uint32StoreLookupStringFrom(store, s, 0, 0)

RECURSIVE Uint32StoreLookupBytesFrom(_, _, _)
\* the for loop of Uint32Store.LookupBytes, over the bytes of s in turn
Uint32StoreLookupBytesFrom(store, s, bv) ==
    IF s # <<>>
    THEN LET b  == Head(s)
             ni == ByteOf(b - store[bv + 1].nextOffset)
         IN  IF b < store[bv + 1].nextOffset
             THEN Ok([value |-> 0, found |-> FALSE])
             ELSE IF ni >= store[bv + 1].nextLen
             THEN Ok([value |-> 0, found |-> FALSE])
             ELSE IF store[bv + 1].nextLo + ni >= Len(store)
             THEN Panic
             ELSE Uint32StoreLookupBytesFrom(store, Tail(s), store[bv + 1].nextLo + ni)
    ELSE Ok([value |-> store[bv + 1].value, found |-> store[bv + 1].valid])

\* Uint32Store.LookupBytes
Uint32StoreLookupBytes(store, s) ==
    IF Len(store) = 0 THEN Panic ELSE Uint32StoreLookupBytesFrom(store, s, 0)

(***************************************************************************)
(* Map: the lookups, Empty and the sorted key listing.  A lookup returns   *)
(* [value, found], and panics when it indexes outside the store.           *)
(***************************************************************************)
RECURSIVE MapLookupStringFromOffByOne(_, _, _, _)
\* the for loop of Map.LookupString with ni > bv.nextLen for ni >= bv.nextLen
MapLookupStringFromOffByOne(store, s, i, bv) ==
    IF i < Len(s)
    THEN LET b  == s[i + 1]
             ni == ByteOf(b - store[bv + 1].nextOffset)
         IN  IF b < store[bv + 1].nextOffset
             THEN Ok([value |-> ZeroValue, found |-> FALSE])
             ELSE IF ni > store[bv + 1].nextLen
             THEN Ok([value |-> ZeroValue, found |-> FALSE])
             ELSE IF store[bv + 1].nextLo + ni >= Len(store)
             THEN Panic
             ELSE MapLookupStringFromOffByOne(store, s, i + 1, store[bv + 1].nextLo + ni)
    ELSE Ok([value |-> store[bv + 1].value, found |-> store[bv + 1].valid])

RECURSIVE MapLookupStringFromKeepsValue(_, _, _, _)
\* the for loop of Map.LookupString with return bv.value, false for
\* return r, false
MapLookupStringFromKeepsValue(store, s, i, bv) ==
    IF i < Len(s)
    THEN LET b  == s[i + 1]
             ni == ByteOf(b - store[bv + 1].nextOffset)
         IN  IF b < store[bv + 1].nextOffset
             THEN Ok([value |-> store[bv + 1].value, found |-> FALSE])
             ELSE IF ni >= store[bv + 1].nextLen
             THEN Ok([value |-> store[bv + 1].value, found |-> FALSE])
             ELSE IF store[bv + 1].nextLo + ni >= Len(store)
             THEN Panic
             ELSE MapLookupStringFromKeepsValue(store, s, i + 1, store[bv + 1].nextLo + ni)
    ELSE Ok([value |-> store[bv + 1].value, found |-> store[bv + 1].valid])

RECURSIVE MapLookupStringFrom(_, _, _, _)
\* the for loop of Map.LookupString from byte i (from 0) of s, with bv the
\* index (from 0) in store of the current byteValue
MapLookupStringFrom(store, s, i, bv) ==
    IF i < Len(s)
    THEN LET b  == s[i + 1]
             ni == ByteOf(b - store[bv + 1].nextOffset)
         IN  IF b < store[bv + 1].nextOffset
             THEN Ok([value |-> ZeroValue, found |-> FALSE])
             ELSE IF ni >= store[bv + 1].nextLen
             THEN Ok([value |-> ZeroValue, found |-> FALSE])
             ELSE IF store[bv + 1].nextLo + ni >= Len(store)
             THEN Panic
             ELSE MapLookupStringFrom(store, s, i + 1, store[bv + 1].nextLo + ni)
    ELSE Ok([value |-> store[bv + 1].value, found |-> store[bv + 1].valid])

\* Map.LookupString
MapLookupString(store, s) ==
    IF Len(store) = 0 THEN Panic ELSE MapLookupStringFrom(store, s, 0, 0)

RECURSIVE MapLookupBytesFromFirstByte(_, _, _, _)
\* the for loop of Map.LookupBytes with s[0] for s[i]: every step looks at
\* the first byte of the query
MapLookupBytesFromFirstByte(store, s, i, bv) ==
    IF i < Len(s)
    THEN LET b  == s[1]
             ni == ByteOf(b - store[bv + 1].nextOffset)
         IN  IF b < store[bv + 1].nextOffset
             THEN Ok([value |-> ZeroValue, found |-> FALSE])
             ELSE IF ni >= store[bv + 1].nextLen
             THEN Ok([value |-> ZeroValue, found |-> FALSE])
             ELSE IF store[bv + 1].nextLo + ni >= Len(store)
             THEN Panic
             ELSE MapLookupBytesFromFirstByte(store, s, i + 1, store[bv + 1].nextLo + ni)
    ELSE Ok([value |-> store[bv + 1].value, found |-> store[bv + 1].valid])

RECURSIVE MapLookupBytesFrom(_, _, _, _)
\* the for loop of Map.LookupBytes
MapLookupBytesFrom(store, s, i, bv) ==
    IF i < Len(s)
    THEN LET b  == s[i + 1]
             ni == ByteOf(b - store[bv + 1].nextOffset)
         IN  IF b < store[bv + 1].nextOffset
             THEN Ok([value |-> ZeroValue, found |-> FALSE])
             ELSE IF ni >= store[bv + 1].nextLen
             THEN Ok([value |-> ZeroValue, found |-> FALSE])
             ELSE IF store[bv + 1].nextLo + ni >= Len(store)
             THEN Panic
             ELSE MapLookupBytesFrom(store, s, i + 1, store[bv + 1].nextLo + ni)
    ELSE Ok([value |-> store[bv + 1].value, found |-> store[bv + 1].valid])

\* Map.LookupBytes
MapLookupBytes(store, s) ==
    IF Len(store) = 0 THEN Panic ELSE MapLookupBytesFrom(store, s, 0, 0)

\* Map.Empty without its look at store[0].valid
MapEmptyByLength(store) == Len(store) = 1

\* Map.Empty
MapEmpty(store) == Len(store) = 1 /\ ~store[1].valid

RECURSIVE appendKeysFrom(_, _, _, _)
RECURSIVE appendKeysLoop(_, _, _, _, _, _)

\* the for loop of Map.appendKeysFrom for i in lo..hi-1, in increasing order
\* of i; r is Ok(*a) before it.  (The range is halved rather than stepped
\* through so that the evaluation does not nest 255 deep.)
appendKeysLoop(store, storeIndex, prefix, r, lo, hi) ==
    IF r.panic THEN Panic
    ELSE IF hi <= lo THEN r
    ELSE IF hi = lo + 1
    THEN appendKeysFrom(store, store[storeIndex + 1].nextLo + lo,
                        Append(prefix, ByteOf(store[storeIndex + 1].nextOffset + lo)),
                        r.val)
    ELSE LET mid == (lo + hi) \div 2
         IN  appendKeysLoop(store, storeIndex, prefix,
                            appendKeysLoop(store, storeIndex, prefix, r, lo, mid),
                            mid, hi)

\* Map.appendKeysFrom with the key of store[storeIndex] appended after the
\* keys below it rather than before them
appendKeysFromKeyLast(store, storeIndex, prefix, a) ==
    IF storeIndex >= Len(store) THEN Panic
    ELSE LET r == appendKeysLoop(store, storeIndex, prefix, Ok(a),
                                 0, store[storeIndex + 1].nextLen)
         IN  IF r.panic THEN Panic
             ELSE Ok(IF store[storeIndex + 1].valid THEN Append(r.val, prefix) ELSE r.val)

\* Map.appendKeysFrom: *a after the keys at and below store[storeIndex],
\* prefix being the bytes that lead there
appendKeysFrom(store, storeIndex, prefix, a) ==
    IF storeIndex >= Len(store) THEN Panic
    ELSE appendKeysLoop(store, storeIndex, prefix,
                        Ok(IF store[storeIndex + 1].valid THEN Append(a, prefix) ELSE a),
                        0, store[storeIndex + 1].nextLen)

\* Map.AppendSortedKeys
AppendSortedKeys(store, a) == appendKeysFrom(store, 0, <<>>, a)

(***************************************************************************)
(* MapFaster.  The next field of a byteValueSlice is a slice of the        *)
(* MapFaster's own store: [lo, len], the len elements from index lo (from  *)
(* 0) on.                                                                  *)
(***************************************************************************)
\* NewMapFaster without v.nextOffset = sv.nextOffset
NewMapFasterWithoutOffset(srcStore) ==
    IF \E i \in 1..Len(srcStore) :
           srcStore[i].nextLo + srcStore[i].nextLen > Len(srcStore)
    THEN Panic
    ELSE Ok([i \in 1..Len(srcStore) |->
                [next       |-> [lo |-> srcStore[i].nextLo, len |-> srcStore[i].nextLen],
                 nextOffset |-> 0,
                 valid      |-> srcStore[i].valid,
                 value      |-> srcStore[i].value]])

\* NewMapFaster: the MapFaster's store
NewMapFaster(srcStore) ==
    IF \E i \in 1..Len(srcStore) :
           srcStore[i].nextLo + srcStore[i].nextLen > Len(srcStore)
    THEN Panic          \* slice bounds out of range
    ELSE Ok([i \in 1..Len(srcStore) |->
                [next       |-> [lo |-> srcStore[i].nextLo, len |-> srcStore[i].nextLen],
                 nextOffset |-> srcStore[i].nextOffset,
                 valid      |-> srcStore[i].valid,
                 value      |-> srcStore[i].value]])

RECURSIVE FasterLookupStringFrom(_, _, _, _)
\* the for loop of MapFaster.LookupString
FasterLookupStringFrom(store, s, i, bv) ==
    IF i < Len(s)
    THEN LET b  == s[i + 1]
             ni == ByteOf(b - store[bv + 1].nextOffset)
         IN  IF b < store[bv + 1].nextOffset
             THEN Ok([value |-> ZeroValue, found |-> FALSE])
             ELSE IF ni >= store[bv + 1].next.len
             THEN Ok([value |-> ZeroValue, found |-> FALSE])
             ELSE FasterLookupStringFrom(store, s, i + 1, store[bv + 1].next.lo + ni)
    ELSE Ok([value |-> store[bv + 1].value, found |-> store[bv + 1].valid])

\* MapFaster.LookupString
FasterLookupString(store, s) ==
    IF Len(store) = 0 THEN Panic ELSE FasterLookupStringFrom(store, s, 0, 0)

RECURSIVE FasterLookupBytesFrom(_, _, _, _)
\* the for loop of MapFaster.LookupBytes
FasterLookupBytesFrom(store, s, i, bv) ==
    IF i < Len(s)
    THEN LET b  == s[i + 1]
             ni == ByteOf(b - store[bv + 1].nextOffset)
         IN  IF b < store[bv + 1].nextOffset
             THEN Ok([value |-> ZeroValue, found |-> FALSE])
             ELSE IF ni >= store[bv + 1].next.len
             THEN Ok([value |-> ZeroValue, found |-> FALSE])
             ELSE FasterLookupBytesFrom(store, s, i + 1, store[bv + 1].next.lo + ni)
    ELSE Ok([value |-> store[bv + 1].value, found |-> store[bv + 1].valid])

\* MapFaster.LookupBytes
FasterLookupBytes(store, s) ==
    IF Len(store) = 0 THEN Panic ELSE FasterLookupBytesFrom(store, s, 0, 0)

(***************************************************************************)
(* The read operations one step at a time, for goroutines that run them    *)
(* concurrently.  A goroutine in a call is a record: pc ("for" inside the  *)
(* loop, "returned", "panicked"), op, the argument s, and the locals of    *)
(* the call.  A step is one pass through the loop, which reads one         *)
(* byteValue of the store; no step assigns to the store.                   *)
(***************************************************************************)
Returned(r, val) == [pc |-> "returned", op |-> r.op, s |-> r.s, val |-> val]
Panicked(r) == [pc |-> "panicked", op |-> r.op, s |-> r.s]

\* bv := &m.store[0], i := 0 of the four lookups
LookupEntry(store, op, s) ==
    IF Len(store) = 0
    THEN [pc |-> "panicked", op |-> op, s |-> s]
    ELSE [pc |-> "for", op |-> op, s |-> s, i |-> 0, bv |-> 0]

\* a pass through the loop of Map.LookupString that moves to the child
\* without looking at nextOffset and nextLen
MapLookupStringStepUnchecked(store, r) ==
    IF r.i < Len(r.s)
    THEN LET ni == ByteOf(r.s[r.i + 1] - store[r.bv + 1].nextOffset)
         IN  IF store[r.bv + 1].nextLo + ni >= Len(store)
             THEN Returned(r, [value |-> ZeroValue, found |-> FALSE])
             ELSE [r EXCEPT !.i = r.i + 1, !.bv = store[r.bv + 1].nextLo + ni]
    ELSE Returned(r, [value |-> store[r.bv + 1].value, found |-> store[r.bv + 1].valid])

\* one pass through the loop of Map.LookupString, or its return
MapLookupStringStep(store, r) ==
    IF r.i < Len(r.s)
    THEN LET b  == r.s[r.i + 1]
             ni == ByteOf(b - store[r.bv + 1].nextOffset)
         IN  IF b < store[r.bv + 1].nextOffset
             THEN Returned(r, [value |-> ZeroValue, found |-> FALSE])
             ELSE IF ni >= store[r.bv + 1].nextLen
             THEN Returned(r, [value |-> ZeroValue, found |-> FALSE])
             ELSE IF store[r.bv + 1].nextLo + ni >= Len(store)
             THEN Panicked(r)
             ELSE [r EXCEPT !.i = r.i + 1, !.bv = store[r.bv + 1].nextLo + ni]
    ELSE Returned(r, [value |-> store[r.bv + 1].value, found |-> store[r.bv + 1].valid])

\* one pass through the loop of Map.LookupBytes, or its return
MapLookupBytesStep(store, r) ==
    IF r.i < Len(r.s)
    THEN LET b  == r.s[r.i + 1]
             ni == ByteOf(b - store[r.bv + 1].nextOffset)
         IN  IF b < store[r.bv + 1].nextOffset
             THEN Returned(r, [value |-> ZeroValue, found |-> FALSE])
             ELSE IF ni >= store[r.bv + 1].nextLen
             THEN Returned(r, [value |-> ZeroValue, found |-> FALSE])
             ELSE IF store[r.bv + 1].nextLo + ni >= Len(store)
             THEN Panicked(r)
             ELSE [r EXCEPT !.i = r.i + 1, !.bv = store[r.bv + 1].nextLo + ni]
    ELSE Returned(r, [value |-> store[r.bv + 1].value, found |-> store[r.bv + 1].valid])

\* one pass through the loop of MapFaster.LookupString, or its return
FasterLookupStringStep(store, r) ==
    IF r.i < Len(r.s)
    THEN LET b  == r.s[r.i + 1]
             ni == ByteOf(b - store[r.bv + 1].nextOffset)
         IN  IF b < store[r.bv + 1].nextOffset
             THEN Returned(r, [value |-> ZeroValue, found |-> FALSE])
             ELSE IF ni >= store[r.bv + 1].next.len
             THEN Returned(r, [value |-> ZeroValue, found |-> FALSE])
             ELSE [r EXCEPT !.i = r.i + 1, !.bv = store[r.bv + 1].next.lo + ni]
    ELSE Returned(r, [value |-> store[r.bv + 1].value, found |-> store[r.bv + 1].valid])

\* one pass through the loop of MapFaster.LookupBytes, or its return
FasterLookupBytesStep(store, r) ==
    IF r.i < Len(r.s)
    THEN LET b  == r.s[r.i + 1]
             ni == ByteOf(b - store[r.bv + 1].nextOffset)
         IN  IF b < store[r.bv + 1].nextOffset
             THEN Returned(r, [value |-> ZeroValue, found |-> FALSE])
             ELSE IF ni >= store[r.bv + 1].next.len
             THEN Returned(r, [value |-> ZeroValue, found |-> FALSE])
             ELSE [r EXCEPT !.i = r.i + 1, !.bv = store[r.bv + 1].next.lo + ni]
    ELSE Returned(r, [value |-> store[r.bv + 1].value, found |-> store[r.bv + 1].valid])

\* Map.AppendSortedKeys up to the call of appendKeysFrom(0, &buf, &a).  The
\* calls of appendKeysFrom in progress are the frames of stack, the last the
\* innermost: storeIndex, the loop variable i, and at, "entry" before
\* bv.valid is looked at and "loop" after.
AppendSortedKeysEntry(op, a) ==
    [pc |-> "for", op |-> op, s |-> a, a |-> a, prefix |-> <<>>,
     stack |-> <<[storeIndex |-> 0, i |-> 0, at |-> "entry"]>>]

\* the return of the innermost appendKeysFrom: to the loop of its caller,
\* which takes the byte off prefix and increments i, or to AppendSortedKeys,
\* which returns a
appendKeysFromReturn(r) ==
    LET n == Len(r.stack)
    IN  IF n = 1 THEN Returned(r, r.a)
        ELSE [r EXCEPT !.prefix = SubSeq(r.prefix, 1, Len(r.prefix) - 1),
                       !.stack = [SubSeq(r.stack, 1, n - 1)
                                    EXCEPT ![n - 1].i = r.stack[n - 1].i + 1]]

\* one step of Map.appendKeysFrom in its innermost call: the entry (bv.valid
\* and the append to *a), a pass through the loop that calls appendKeysFrom
\* for the next child, or the return
appendKeysFromStep(store, r) ==
    LET n  == Len(r.stack)
        f  == r.stack[n]
    IN  IF f.storeIndex >= Len(store) THEN Panicked(r)
        ELSE LET bv == store[f.storeIndex + 1]
             IN  IF f.at = "entry"
                 THEN [r EXCEPT !.a = IF bv.valid THEN Append(r.a, r.prefix) ELSE r.a,
                                !.stack[n].at = "loop"]
                 ELSE IF f.i < bv.nextLen
                 THEN [r EXCEPT !.prefix = Append(r.prefix, ByteOf(bv.nextOffset + f.i)),
                                !.stack = Append(r.stack,
                                                 [storeIndex |-> bv.nextLo + f.i,
                                                  i |-> 0, at |-> "entry"])]
                 ELSE appendKeysFromReturn(r)

(***************************************************************************)
(* The program: a caller that holds a source, builds a Map from it, may    *)
(* derive a MapFaster from the Map, and calls the read operations, one at  *)
(* a time.                                                                 *)
(***************************************************************************)
VARIABLES
    src,        \* the caller's source: a Go map from key to value
    from,       \* history: the contents of src when NewMap read them
    b,          \* the builder of the NewMap call, as build left it
    m,          \* the Map's store; NoMap before NewMap has returned
    mf,         \* the MapFaster's store; NoMap before NewMapFaster has returned
    ret,        \* what the last read operation returned, and which it was;
                \* NoRet when the caller holds no result
    panicked,   \* the call that panicked, which stopped the program; NoPanic
                \* when none has
    readers,    \* the goroutines that read the Map and the MapFaster at the
                \* same time: for each, the call it is in and how far it is
    u32         \* the Uint32Store's store; NoMap before NewUint32Store has
                \* returned

vars == <<src, from, b, m, mf, ret, panicked, readers, u32>>

\* the goroutines that read concurrently
Readers == {"r1", "r2"}
\* a goroutine that has not called yet
Idle == [pc |-> "idle"]

\* the zero Map or MapFaster, which a variable holds before it is assigned:
\* its store is nil
NoMap == <<>>
\* the empty Go map
NoSrc == [k \in {} |-> ZeroValue]
NoRet == [op |-> "none"]
NoPanic == "none"

Init ==
    /\ src \in Sources
    /\ from = NoSrc
    /\ b = NoBuilder
    /\ m = NoMap
    /\ mf = NoMap
    /\ ret = NoRet
    /\ panicked = NoPanic
    /\ readers = [r \in Readers |-> Idle]
    /\ u32 = NoMap

\* fm := NewMap(src)
DoNewMap ==
    /\ panicked = NoPanic
    /\ m = NoMap
    /\ \E keys \in AppendKeys(src, <<>>) :
           LET r == NewMap(keys, src)
           IN  /\ b' = r.b
               /\ IF r.panic
                  THEN panicked' = "NewMap" /\ UNCHANGED m
                  ELSE m' = r.val /\ UNCHANGED panicked
    /\ from' = src
    /\ UNCHANGED <<src, mf, ret>>
    /\ UNCHANGED <<readers, u32>>

\* mf := NewMapFaster(fm)
DoNewMapFaster ==
    /\ panicked = NoPanic
    /\ m # NoMap
    /\ mf = NoMap
    /\ LET r == NewMapFaster(m)
       IN  IF r.panic
           THEN panicked' = "NewMapFaster" /\ UNCHANGED mf
           ELSE mf' = r.val /\ UNCHANGED panicked
    /\ UNCHANGED <<src, from, b, m, ret>>
    /\ UNCHANGED <<readers, u32>>

\* a read operation returned r.val, or panicked
Return(op, r) ==
    IF r.panic
    THEN panicked' = op /\ UNCHANGED ret
    ELSE ret' = [op |-> op, val |-> r.val] /\ UNCHANGED panicked

\* fm.LookupString(q), for any query q.  (The queries are gathered by what
\* the call returns, so that queries with one result make one step.)
DoMapLookupString ==
    /\ panicked = NoPanic
    /\ m # NoMap
    /\ ret = NoRet
    /\ \E r \in {MapLookupString(m, q) : q \in QueriesOf(DOMAIN from)} :
           Return("Map.LookupString", r)
    /\ UNCHANGED <<src, from, b, m, mf>>
    /\ UNCHANGED <<readers, u32>>

\* fm.LookupBytes(q)
DoMapLookupBytes ==
    /\ panicked = NoPanic
    /\ m # NoMap
    /\ ret = NoRet
    /\ \E r \in {MapLookupBytes(m, q) : q \in QueriesOf(DOMAIN from)} :
           Return("Map.LookupBytes", r)
    /\ UNCHANGED <<src, from, b, m, mf>>
    /\ UNCHANGED <<readers, u32>>

\* mf.LookupString(q)
DoFasterLookupString ==
    /\ panicked = NoPanic
    /\ mf # NoMap
    /\ ret = NoRet
    /\ \E r \in {FasterLookupString(mf, q) : q \in QueriesOf(DOMAIN from)} :
           Return("MapFaster.LookupString", r)
    /\ UNCHANGED <<src, from, b, m, mf>>
    /\ UNCHANGED <<readers, u32>>

\* mf.LookupBytes(q)
DoFasterLookupBytes ==
    /\ panicked = NoPanic
    /\ mf # NoMap
    /\ ret = NoRet
    /\ \E r \in {FasterLookupBytes(mf, q) : q \in QueriesOf(DOMAIN from)} :
           Return("MapFaster.LookupBytes", r)
    /\ UNCHANGED <<src, from, b, m, mf>>
    /\ UNCHANGED <<readers, u32>>

\* the slices a caller hands to AppendSortedKeys: an empty one and one that
\* holds a string already
SuppliedSlices == {<<>>, <<<<254>>>>}

\* fm.AppendSortedKeys(a)
DoAppendSortedKeys ==
    /\ panicked = NoPanic
    /\ m # NoMap
    /\ ret = NoRet
    /\ \E a \in SuppliedSlices :
           Return("Map.AppendSortedKeys", AppendSortedKeys(m, a))
    /\ UNCHANGED <<src, from, b, m, mf>>
    /\ UNCHANGED <<readers, u32>>

\* fm.Empty()
DoEmpty ==
    /\ panicked = NoPanic
    /\ m # NoMap
    /\ ret = NoRet
    /\ Return("Map.Empty", Ok(MapEmpty(m)))
    /\ UNCHANGED <<src, from, b, m, mf>>
    /\ UNCHANGED <<readers, u32>>

\* the caller is done with the result of a read operation
DoDiscard ==
    /\ panicked = NoPanic
    /\ ret # NoRet
    /\ ret' = NoRet
    /\ UNCHANGED <<src, from, b, m, mf, panicked>>
    /\ UNCHANGED <<readers, u32>>

Next ==
    \/ DoNewMap
    \/ DoNewMapFaster
    \/ DoMapLookupString
    \/ DoMapLookupBytes
    \/ DoFasterLookupString
    \/ DoFasterLookupBytes
    \/ DoAppendSortedKeys
    \/ DoEmpty
    \/ DoDiscard

Spec == Init /\ [][Next]_vars

(***************************************************************************)
(* The program of the Example: the caller builds the Map, then changes its *)
(* Go map (m["m"] = 4), then looks up every key of the changed map.        *)
(***************************************************************************)
\* m[k] = v after NewMap has returned: a new key, or a new value for a key.
\* The caller changes the map it built from once, and keeps it within the
\* sources considered.
DoSrcAssign ==
    /\ panicked = NoPanic
    /\ m # NoMap
    /\ src = from
    /\ \E k \in Strings(Alphabet, 0, 1) \cup DOMAIN src, v \in Values :
           /\ MapAssign(src, k, v) \in Sources \ {src}
           /\ src' = MapAssign(src, k, v)
    /\ UNCHANGED <<from, b, m, mf, ret, panicked>>
    /\ UNCHANGED <<readers, u32>>

\* delete(m, k) after NewMap has returned
DoSrcDelete ==
    /\ panicked = NoPanic
    /\ m # NoMap
    /\ src = from
    /\ \E k \in DOMAIN src : src' = MapDelete(src, k)
    /\ UNCHANGED <<from, b, m, mf, ret, panicked>>
    /\ UNCHANGED <<readers, u32>>

\* the keys the caller looks up: those of its Go map as it is now, and
\* those the Map was built from
KeysToLookUp == DOMAIN src \cup DOMAIN from

\* v, ok := fm.LookupString(k): the caller keeps k with the result
ReturnOf(op, q, r) ==
    IF r.panic
    THEN panicked' = op /\ UNCHANGED ret
    ELSE ret' = [op |-> op, q |-> q, val |-> r.val] /\ UNCHANGED panicked

DoLookupStringOfKey ==
    /\ panicked = NoPanic
    /\ m # NoMap
    /\ ret = NoRet
    /\ \E q \in KeysToLookUp :
           ReturnOf("Map.LookupString", q, MapLookupString(m, q))
    /\ UNCHANGED <<src, from, b, m, mf>>
    /\ UNCHANGED <<readers, u32>>

DoLookupBytesOfKey ==
    /\ panicked = NoPanic
    /\ m # NoMap
    /\ ret = NoRet
    /\ \E q \in KeysToLookUp :
           ReturnOf("Map.LookupBytes", q, MapLookupBytes(m, q))
    /\ UNCHANGED <<src, from, b, m, mf>>
    /\ UNCHANGED <<readers, u32>>

DoFasterLookupStringOfKey ==
    /\ panicked = NoPanic
    /\ mf # NoMap
    /\ ret = NoRet
    /\ \E q \in KeysToLookUp :
           ReturnOf("MapFaster.LookupString", q, FasterLookupString(mf, q))
    /\ UNCHANGED <<src, from, b, m, mf>>
    /\ UNCHANGED <<readers, u32>>

DoFasterLookupBytesOfKey ==
    /\ panicked = NoPanic
    /\ mf # NoMap
    /\ ret = NoRet
    /\ \E q \in KeysToLookUp :
           ReturnOf("MapFaster.LookupBytes", q, FasterLookupBytes(mf, q))
    /\ UNCHANGED <<src, from, b, m, mf>>
    /\ UNCHANGED <<readers, u32>>

NextSnap ==
    \/ DoNewMap
    \/ DoNewMapFaster
    \/ DoSrcAssign
    \/ DoSrcDelete
    \/ DoLookupStringOfKey
    \/ DoLookupBytesOfKey
    \/ DoFasterLookupStringOfKey
    \/ DoFasterLookupBytesOfKey
    \/ DoDiscard

SpecSnap == Init /\ [][NextSnap]_vars

(***************************************************************************)
(* The program of the v1 Example and tests: the caller builds a            *)
(* Uint32Store from its source and looks strings up in it; beside it, the  *)
(* Map of the same source.                                                 *)
(***************************************************************************)
\* the source of the Example: "key1": 42, "key2": 27644437, "l": 2
ExampleSource ==
    [k \in {<<107, 101, 121, 49>>, <<107, 101, 121, 50>>, <<108>>} |->
        IF k = <<107, 101, 121, 49>> THEN 42
        ELSE IF k = <<107, 101, 121, 50>> THEN 27644437
        ELSE 2]

\* the store the Example expects to be dumped
ExampleStore ==
    << [nextLo |-> 1, nextLen |-> 2, nextOffset |-> 107, valid |-> FALSE, value |-> 0],
       [nextLo |-> 3, nextLen |-> 1, nextOffset |-> 101, valid |-> FALSE, value |-> 0],
       [nextLo |-> 0, nextLen |-> 0, nextOffset |-> 0, valid |-> TRUE, value |-> 2],
       [nextLo |-> 4, nextLen |-> 1, nextOffset |-> 121, valid |-> FALSE, value |-> 0],
       [nextLo |-> 5, nextLen |-> 2, nextOffset |-> 49, valid |-> FALSE, value |-> 0],
       [nextLo |-> 0, nextLen |-> 0, nextOffset |-> 0, valid |-> TRUE, value |-> 42],
       [nextLo |-> 0, nextLen |-> 0, nextOffset |-> 0, valid |-> TRUE, value |-> 27644437] >>

InitV1 ==
    /\ src \in Sources \cup {ExampleSource}
    /\ from = NoSrc
    /\ b = NoBuilder
    /\ m = NoMap
    /\ mf = NoMap
    /\ ret = NoRet
    /\ panicked = NoPanic
    /\ readers = [r \in Readers |-> Idle]
    /\ u32 = NoMap

\* fm := NewUint32Store(src), with append giving capacity as the runtime
\* chooses
DoNewUint32Store ==
    /\ panicked = NoPanic
    /\ u32 = NoMap
    /\ \E keys \in AppendKeys(src, <<>>), policy \in GrowthPolicies :
           LET r == NewUint32Store(keys, src, policy)
           IN  IF r.panic
               THEN panicked' = "NewUint32Store" /\ UNCHANGED u32
               ELSE u32' = r.val /\ UNCHANGED panicked
    /\ UNCHANGED <<src, from, b, m, mf, ret, readers>>

\* fm.LookupString(q)
DoUint32StoreLookupString ==
    /\ panicked = NoPanic
    /\ u32 # NoMap
    /\ ret = NoRet
    /\ \E r \in {Uint32StoreLookupString(u32, q) : q \in QueriesOf(DOMAIN src)} :
           Return("Uint32Store.LookupString", r)
    /\ UNCHANGED <<src, from, b, m, mf, readers, u32>>

\* fm.LookupBytes(q)
DoUint32StoreLookupBytes ==
    /\ panicked = NoPanic
    /\ u32 # NoMap
    /\ ret = NoRet
    /\ \E r \in {Uint32StoreLookupBytes(u32, q) : q \in QueriesOf(DOMAIN src)} :
           Return("Uint32Store.LookupBytes", r)
    /\ UNCHANGED <<src, from, b, m, mf, readers, u32>>

NextV1 ==
    \/ DoNewUint32Store
    \/ DoUint32StoreLookupString
    \/ DoUint32StoreLookupBytes
    \/ DoNewMap
    \/ DoNewMapFaster
    \/ DoMapLookupString
    \/ DoMapLookupBytes
    \/ DoFasterLookupString
    \/ DoFasterLookupBytes
    \/ DoDiscard

SpecV1 == InitV1 /\ [][NextV1]_vars

(***************************************************************************)
(* The program of TestFastStringToUint32BigSpan: the source holds "a!" and *)
(* "a~" (or some of "", "a", "a!", "a~"), the caller builds the stores     *)
(* from it and looks strings up, among them strings that no key begins     *)
(* with but whose bytes lie between those of keys.  The sources of the     *)
(* other programs are built from as well.                                  *)
(***************************************************************************)
BigSpanKeys == {<<>>, <<97>>, <<97, 33>>, <<97, 126>>}
BigSpanValues == {1, 2}
BigSpanSources == UNION {[S -> BigSpanValues] : S \in SUBSET BigSpanKeys}

\* the bytes of the queries: of keys ('!', 'a', '~') and between them ('"',
\* 0xfe)
BigSpanQueryBytes == {33, 34, 97, 126, 254}
BigSpanQueriesOf(S) ==
    {p \o t : p \in Prefixes(S), t \in {<<>>} \cup Strings(BigSpanQueryBytes, 1, 2)}

InitBigSpan ==
    /\ src \in BigSpanSources \cup Sources
    /\ from = NoSrc
    /\ b = NoBuilder
    /\ m = NoMap
    /\ mf = NoMap
    /\ ret = NoRet
    /\ panicked = NoPanic
    /\ readers = [r \in Readers |-> Idle]
    /\ u32 = NoMap

\* check(fm.LookupString(k)) and check(fm.LookupBytes([]byte(k))), on the
\* Map and on the Uint32Store
DoBigSpanMapLookupString ==
    /\ panicked = NoPanic
    /\ m # NoMap
    /\ ret = NoRet
    /\ \E r \in {MapLookupString(m, q) : q \in BigSpanQueriesOf(DOMAIN src)} :
           Return("Map.LookupString", r)
    /\ UNCHANGED <<src, from, b, m, mf, readers, u32>>

DoBigSpanMapLookupBytes ==
    /\ panicked = NoPanic
    /\ m # NoMap
    /\ ret = NoRet
    /\ \E r \in {MapLookupBytes(m, q) : q \in BigSpanQueriesOf(DOMAIN src)} :
           Return("Map.LookupBytes", r)
    /\ UNCHANGED <<src, from, b, m, mf, readers, u32>>

DoBigSpanUint32StoreLookupString ==
    /\ panicked = NoPanic
    /\ u32 # NoMap
    /\ ret = NoRet
    /\ \E r \in {Uint32StoreLookupString(u32, q) : q \in BigSpanQueriesOf(DOMAIN src)} :
           Return("Uint32Store.LookupString", r)
    /\ UNCHANGED <<src, from, b, m, mf, readers, u32>>

DoBigSpanUint32StoreLookupBytes ==
    /\ panicked = NoPanic
    /\ u32 # NoMap
    /\ ret = NoRet
    /\ \E r \in {Uint32StoreLookupBytes(u32, q) : q \in BigSpanQueriesOf(DOMAIN src)} :
           Return("Uint32Store.LookupBytes", r)
    /\ UNCHANGED <<src, from, b, m, mf, readers, u32>>

NextBigSpan ==
    \/ DoNewMap
    \/ DoNewUint32Store
    \/ DoBigSpanMapLookupString
    \/ DoBigSpanMapLookupBytes
    \/ DoBigSpanUint32StoreLookupString
    \/ DoBigSpanUint32StoreLookupBytes
    \/ DoDiscard

SpecBigSpan == InitBigSpan /\ [][NextBigSpan]_vars

(***************************************************************************)
(* The program with concurrent readers: the caller builds the Map and the  *)
(* MapFaster and the goroutines of Readers call the read operations on     *)
(* them, each call a step at a time, in any interleaving.  Each goroutine  *)
(* calls AppendSortedKeys with a slice of its own.                         *)
(***************************************************************************)
\* Keys made of the two bytes at the top of the range, so that a byteValue
\* has at most three children and a listing is a few steps long.
NarrowAlphabet == {253, 255}
NarrowSources ==
    {s \in Sources : /\ TotalLen(DOMAIN s) <= MaxReaderSrcBytes
                     /\ \A k \in DOMAIN s : \A i \in 1..Len(k) : k[i] \in NarrowAlphabet}

\* the queries of the readers: the prefixes of the keys, as they are and
\* followed by one byte
ReaderQueries(S) ==
    Prefixes(S) \cup {Append(p, c) : p \in Prefixes(S), c \in QueryBytes}

InitConc ==
    /\ src \in NarrowSources
    /\ from = NoSrc
    /\ b = NoBuilder
    /\ m = NoMap
    /\ mf = NoMap
    /\ ret = NoRet
    /\ panicked = NoPanic
    /\ readers = [r \in Readers |-> Idle]
    /\ u32 = NoMap

MapLookups == {"Map.LookupString", "Map.LookupBytes"}
FasterLookups == {"MapFaster.LookupString", "MapFaster.LookupBytes"}

\* go fm.LookupString(q), go fm.LookupBytes(q)
DoCallMapLookup(r) ==
    /\ panicked = NoPanic
    /\ m # NoMap
    /\ readers[r] = Idle
    /\ \E op \in MapLookups, q \in ReaderQueries(DOMAIN from) :
           readers' = [readers EXCEPT ![r] = LookupEntry(m, op, q)]
    /\ UNCHANGED <<src, from, b, m, mf, ret, panicked, u32>>

\* go mf.LookupString(q), go mf.LookupBytes(q)
DoCallFasterLookup(r) ==
    /\ panicked = NoPanic
    /\ mf # NoMap
    /\ readers[r] = Idle
    /\ \E op \in FasterLookups, q \in ReaderQueries(DOMAIN from) :
           readers' = [readers EXCEPT ![r] = LookupEntry(mf, op, q)]
    /\ UNCHANGED <<src, from, b, m, mf, ret, panicked, u32>>

\* go fm.AppendSortedKeys(a)
DoCallAppendSortedKeys(r) ==
    /\ panicked = NoPanic
    /\ m # NoMap
    /\ readers[r] = Idle
    /\ \E a \in SuppliedSlices :
           readers' = [readers EXCEPT ![r] =
                          AppendSortedKeysEntry("Map.AppendSortedKeys", a)]
    /\ UNCHANGED <<src, from, b, m, mf, ret, panicked, u32>>

\* the goroutine r in a lookup goes once through the loop, or returns
DoLookupStep(r) ==
    /\ readers[r].pc = "for"
    /\ readers[r].op \in MapLookups \cup FasterLookups
    /\ readers' = [readers EXCEPT ![r] =
           CASE readers[r].op = "Map.LookupString" -> MapLookupStringStep(m, readers[r])
             [] readers[r].op = "Map.LookupBytes" -> MapLookupBytesStep(m, readers[r])
             [] readers[r].op = "MapFaster.LookupString" -> FasterLookupStringStep(mf, readers[r])
             [] readers[r].op = "MapFaster.LookupBytes" -> FasterLookupBytesStep(mf, readers[r])]
    /\ UNCHANGED <<src, from, b, m, mf, ret, panicked, u32>>

\* the goroutine r in AppendSortedKeys takes a step of appendKeysFrom
DoAppendKeysStep(r) ==
    /\ readers[r].pc = "for"
    /\ readers[r].op = "Map.AppendSortedKeys"
    /\ readers' = [readers EXCEPT ![r] = appendKeysFromStep(m, readers[r])]
    /\ UNCHANGED <<src, from, b, m, mf, ret, panicked, u32>>

NextConc ==
    \/ DoNewMap
    \/ DoNewMapFaster
    \/ \E r \in Readers : DoCallMapLookup(r)
    \/ \E r \in Readers : DoCallFasterLookup(r)
    \/ \E r \in Readers : DoCallAppendSortedKeys(r)
    \/ \E r \in Readers : DoLookupStep(r)
    \/ \E r \in Readers : DoAppendKeysStep(r)

SpecConc == InitConc /\ [][NextConc]_vars

(***************************************************************************)
(* What the properties are stated with.                                    *)
(***************************************************************************)
\* NewMap has been called, and has returned or panicked
Called == m # NoMap \/ panicked = "NewMap"

\* the keys NewMap was given
keysOf == DOMAIN from

\* what a lookup of q is to return when q is a key, and whether q is one
Present(q) == [value |-> from[q], found |-> TRUE]

\* the bytes that follow the prefix p in the keys S that continue after p
NextBytes(S, p) ==
    {k[Len(p) + 1] : k \in {x \in S : Len(x) > Len(p) /\ SubSeq(x, 1, Len(p)) = p}}

Lowest(B)  == CHOOSE x \in B : \A y \in B : x <= y
Highest(B) == CHOOSE x \in B : \A y \in B : y <= x

RECURSIVE WalkFrom(_, _, _, _)
\* the index (from 0) in store of the byteValue that the bytes of p from
\* byte i (from 0) on lead to from store[bv]; -1 when they lead nowhere
WalkFrom(store, p, i, bv) ==
    IF i >= Len(p) THEN bv
    ELSE LET node == store[bv + 1]
             ni   == p[i + 1] - node.nextOffset
         IN  IF ni < 0 \/ ni >= node.nextLen \/ node.nextLo + ni >= Len(store)
             THEN -1
             ELSE WalkFrom(store, p, i + 1, node.nextLo + ni)

\* the index (from 0) in store of the byteValue for the prefix p, or -1
IndexOf(store, p) == IF store = <<>> THEN -1 ELSE WalkFrom(store, p, 0, 0)

(***************************************************************************)
(* C1.  Round trip: for every source, once NewMap has been called on it,   *)
(* the map is built and LookupString of each key of the source returns the *)
(* value the source's Get returns for it, and true.                        *)
(* Violated: NewMap panics on a source in which the keys that continue a   *)
(* prefix do so with byte 0 and with byte 255 (see C5).                    *)
(***************************************************************************)
RoundTrip ==
    Called =>
        /\ m # NoMap
        /\ \A k \in keysOf :
               MapLookupString(m, k) = Ok([value |-> Get(from, k), found |-> TRUE])

\* What does hold of C1: in every map that NewMap returns, each key of the
\* source is found with its value.
RoundTripOfBuiltMaps ==
    m # NoMap =>
        \A k \in keysOf :
            MapLookupString(m, k) = Ok([value |-> Get(from, k), found |-> TRUE])

(***************************************************************************)
(* C2.  Negative lookup: in a built map, LookupString of a query that is   *)
(* not a key of the source returns found = false (and does not panic): a   *)
(* proper prefix of a key, an extension of a key, a query with a byte in   *)
(* an unused gap of a reserved range of children.                          *)
(***************************************************************************)
NegativeLookup ==
    m # NoMap =>
        \A q \in QueriesOf(keysOf) \ keysOf :
            LET r == MapLookupString(m, q)
            IN  ~r.panic /\ ~r.val.found

\* a lookup has reported absence in the map of "\xfd" and "\xff", which has
\* the gap 254, the proper prefix "" and extensions that are no keys
NegativeLookupWitness ==
    /\ keysOf = {<<253>>, <<255>>}
    /\ m # NoMap
    /\ m[1].nextLen = 3
    /\ ret.op = "Map.LookupString"
    /\ ~ret.val.found

(***************************************************************************)
(* C3.  Empty source: NewMap of a source without keys returns a store of   *)
(* exactly one byteValue, not valid and with nextLen 0, and every lookup   *)
(* in it, that of the empty string included, returns found = false.        *)
(***************************************************************************)
EmptySource ==
    (Called /\ keysOf = {}) =>
        /\ m # NoMap
        /\ Len(m) = 1
        /\ ~m[1].valid
        /\ m[1].nextLen = 0
        /\ \A q \in QueriesOf({}) :
               /\ MapLookupString(m, q) = Ok([value |-> ZeroValue, found |-> FALSE])
               /\ MapLookupBytes(m, q) = Ok([value |-> ZeroValue, found |-> FALSE])

\* a lookup in the map of the empty source has returned
EmptySourceWitness ==
    /\ keysOf = {}
    /\ m # NoMap
    /\ ret.op = "Map.LookupString"
    /\ ~ret.val.found

(***************************************************************************)
(* C4.  Construction never fails: NewMap returns for every source of       *)
(* distinct keys over the bytes 0..255, the empty source included; it      *)
(* never panics.                                                           *)
(* Violated: see C5.                                                       *)
(***************************************************************************)
ConstructionNeverFails == panicked # "NewMap"

(***************************************************************************)
(* C5.  The range of children is representable: in every byteValue the     *)
(* builder has filled in for a prefix that keys continue, nextLen is the   *)
(* highest next byte minus the lowest plus one, without wraparound.        *)
(* Violated: for next bytes 0 and 255 the span is 256 and nextLen, a byte, *)
(* is 0.                                                                   *)
(***************************************************************************)
ChildCountIsSpan ==
    b # NoBuilder =>
        \A p \in Prefixes(keysOf) :
            LET nb    == NextBytes(keysOf, p)
                store == Flatten(b.all, 1)
                i     == IndexOf(store, p)
            IN  (nb # {} /\ i >= 0) =>
                    store[i + 1].nextLen = Highest(nb) - Lowest(nb) + 1

(***************************************************************************)
(* C6.  Flat/derived equivalence: NewMapFaster of a built Map returns, and *)
(* for every query LookupString and LookupBytes of the MapFaster return    *)
(* what those of the Map return.                                           *)
(***************************************************************************)
FlatDerivedEquivalent ==
    /\ panicked # "NewMapFaster"
    /\ mf # NoMap =>
           \A q \in QueriesOf(keysOf) :
               /\ FasterLookupString(mf, q) = MapLookupString(m, q)
               /\ FasterLookupBytes(mf, q) = MapLookupBytes(m, q)

\* a lookup in the MapFaster of a map with a key that continues another has
\* found a key
FlatDerivedWitness ==
    /\ mf # NoMap
    /\ {<<0>>, <<0, 253>>} \subseteq keysOf
    /\ ret.op = "MapFaster.LookupString"
    /\ ret.val.found

(***************************************************************************)
(* C7.  Enumeration: AppendSortedKeys of a built map returns the supplied  *)
(* slice followed by exactly the keys of the source, each once, in         *)
(* strictly increasing byte-wise lexicographic order.                      *)
(***************************************************************************)
EnumerationSorted ==
    m # NoMap =>
        \A a \in SuppliedSlices :
            LET r == AppendSortedKeys(m, a)
            IN  /\ ~r.panic
                /\ Len(r.val) = Len(a) + Cardinality(keysOf)
                /\ SubSeq(r.val, 1, Len(a)) = a
                /\ {r.val[i] : i \in Len(a) + 1 .. Len(r.val)} = keysOf
                /\ \A i \in Len(a) + 1 .. Len(r.val) - 1 : StrLess(r.val[i], r.val[i + 1])

\* AppendSortedKeys has returned the supplied string and then the empty key,
\* a key and a key that continues it
EnumerationWitness ==
    /\ m # NoMap
    /\ ret.op = "Map.AppendSortedKeys"
    /\ ret.val = <<<<254>>, <<>>, <<0>>, <<0, 253>>>>

(***************************************************************************)
(* C8.  String/byte-sequence equivalence: for every query, stored or not,  *)
(* LookupString and LookupBytes return the same, in the Map and in the     *)
(* MapFaster.                                                              *)
(***************************************************************************)
StringBytesEquivalent ==
    /\ m # NoMap =>
           \A q \in QueriesOf(keysOf) : MapLookupString(m, q) = MapLookupBytes(m, q)
    /\ mf # NoMap =>
           \A q \in QueriesOf(keysOf) : FasterLookupString(mf, q) = FasterLookupBytes(mf, q)

\* LookupBytes has found a key in the MapFaster of a map of two keys
StringBytesWitness ==
    /\ mf # NoMap
    /\ Cardinality(keysOf) >= 2
    /\ ret.op = "MapFaster.LookupBytes"
    /\ ret.val.found

(***************************************************************************)
(* C9.  Prefix independence: in a built map the byteValue for a prefix p   *)
(* of the keys is valid exactly when p is a key, and has children exactly  *)
(* when a key continues p, the one whatever the other; LookupString(p)     *)
(* returns p's value and true when p is a key, and false when it is not,   *)
(* though keys continue it.                                                *)
(***************************************************************************)
PrefixIndependence ==
    m # NoMap =>
        \A p \in Prefixes(keysOf) :
            LET i == IndexOf(m, p)
            IN  /\ i >= 0
                /\ m[i + 1].valid <=> p \in keysOf
                /\ m[i + 1].nextLen > 0 <=> NextBytes(keysOf, p) # {}
                /\ MapLookupString(m, p) =
                       Ok(IF p \in keysOf THEN Present(p)
                          ELSE [value |-> ZeroValue, found |-> FALSE])

\* a lookup has found a key in a map that holds a key with children ("\x00",
\* which "\x00\xfd" continues), a key without, and a prefix that is no key
PrefixIndependenceWitness ==
    /\ m # NoMap
    /\ keysOf = {<<0>>, <<0, 253>>}
    /\ m[IndexOf(m, <<0>>) + 1].valid
    /\ m[IndexOf(m, <<0>>) + 1].nextLen > 0
    /\ ~m[1].valid
    /\ ret.op = "Map.LookupString"
    /\ ret.val.found

(***************************************************************************)
(* C10.  Snapshot: once NewMap has returned, a step that adds, removes or  *)
(* changes an entry of the caller's Go map leaves the Map's store and the  *)
(* MapFaster's as they are, and every lookup, whenever it is made, returns *)
(* what the Go map held when NewMap read it: the value and true for a key  *)
(* it held then, false for any other, a key added since included.          *)
(***************************************************************************)
Snapshot ==
    /\ [][src' # src => m' = m /\ mf' = mf]_vars
    /\ [](ret # NoRet =>
             IF ret.q \in DOMAIN from
             THEN ret.val = Present(ret.q)
             ELSE ~ret.val.found)

\* a key added to the Go map after the build has been looked up and
\* reported absent
SnapshotWitness ==
    /\ m # NoMap
    /\ ret # NoRet
    /\ ret.q \in DOMAIN src \ DOMAIN from
    /\ src[ret.q] # ZeroValue
    /\ ~ret.val.found
    /\ ret.val.value = ZeroValue

\* what the call of a reader returns when it runs alone on the stores
Alone(r) ==
    CASE r.op = "Map.LookupString" -> MapLookupString(m, r.s)
      [] r.op = "Map.LookupBytes" -> MapLookupBytes(m, r.s)
      [] r.op = "MapFaster.LookupString" -> FasterLookupString(mf, r.s)
      [] r.op = "MapFaster.LookupBytes" -> FasterLookupBytes(mf, r.s)
      [] r.op = "Map.AppendSortedKeys" -> AppendSortedKeys(m, r.s)

(***************************************************************************)
(* C11.  Concurrent readers: a step of a goroutine in a lookup (by string  *)
(* or bytes, of the Map or the MapFaster) or in AppendSortedKeys leaves    *)
(* the Map's store and the MapFaster's as they are, none of these calls    *)
(* panics, and each returns, however the steps of the goroutines           *)
(* interleave, what the same call returns when it runs alone.              *)
(***************************************************************************)
ConcurrentReaders ==
    /\ [][readers' # readers => m' = m /\ mf' = mf]_vars
    /\ [](\A r \in Readers :
             /\ readers[r].pc # "panicked"
             /\ readers[r].pc = "returned" => Ok(readers[r].val) = Alone(readers[r]))

\* a lookup of a key returned while a listing by the other goroutine was
\* between its steps, after which the listing returned too
ConcurrentReadersWitness ==
    /\ readers["r1"].pc = "returned"
    /\ readers["r1"].op = "Map.AppendSortedKeys"
    /\ Len(readers["r1"].val) = 2
    /\ readers["r2"].pc = "for"
    /\ readers["r2"].op = "MapFaster.LookupString"
    /\ readers["r2"].i = 1

\* what the lookups return for q: those of the Map, of the MapFaster and of
\* the Uint32Store, as far as each has been built
LookupsOf(q) ==
    (IF m # NoMap THEN {MapLookupString(m, q), MapLookupBytes(m, q)} ELSE {})
    \cup (IF mf # NoMap THEN {FasterLookupString(mf, q), FasterLookupBytes(mf, q)} ELSE {})
    \cup (IF u32 # NoMap
          THEN {Uint32StoreLookupString(u32, q), Uint32StoreLookupBytes(u32, q)}
          ELSE {})

(***************************************************************************)
(* C12.  Zero value when absent: every lookup, of the Map, the MapFaster   *)
(* and the Uint32Store, that returns found = false returns the zero value  *)
(* with it, when it stops at a byte outside the range of the children and  *)
(* when it gets through the query to a byteValue that is not valid; and no *)
(* byteValue of a built store that is not valid holds a value other than   *)
(* the zero value.                                                         *)
(***************************************************************************)
ZeroValueWhenAbsent ==
    /\ ret = NoRet =>      \* (the stores are the same where ret holds a result)
           \A q \in QueriesOf(DOMAIN src) : \A r \in LookupsOf(q) :
               ~r.panic /\ ~r.val.found => r.val.value = ZeroValue
    /\ \A i \in 1..Len(m) : ~m[i].valid => m[i].value = ZeroValue
    /\ \A i \in 1..Len(u32) : ~u32[i].valid => u32[i].value = ZeroValue
    /\ ret # NoRet /\ ret.op \in {"Map.LookupString", "Map.LookupBytes",
                                  "MapFaster.LookupString", "MapFaster.LookupBytes",
                                  "Uint32Store.LookupString", "Uint32Store.LookupBytes"}
       /\ ~ret.val.found => ret.val.value = ZeroValue

\* a lookup in the Uint32Store returned 0, false where no value of the
\* source is 0; the stores hold a slot that no key uses ("\xfe") and a
\* proper prefix of a key ("\xff"), and a query that stops at a byte outside
\* the range ("\xfd\xfe")
ZeroValueWhenAbsentWitness ==
    /\ DOMAIN src = {<<253>>, <<255, 0>>}
    /\ \A k \in DOMAIN src : src[k] # ZeroValue
    /\ m # NoMap
    /\ u32 # NoMap
    /\ IndexOf(m, <<254>>) > 0
    /\ IndexOf(m, <<255>>) > 0
    /\ MapLookupString(m, <<254>>) = Ok([value |-> ZeroValue, found |-> FALSE])
    /\ MapLookupString(m, <<255>>) = Ok([value |-> ZeroValue, found |-> FALSE])
    /\ MapLookupString(m, <<253, 254>>) = Ok([value |-> ZeroValue, found |-> FALSE])
    /\ ret = [op |-> "Uint32Store.LookupString",
              val |-> [value |-> ZeroValue, found |-> FALSE]]

(***************************************************************************)
(* C13.  Index validity: in every store NewMap returns, store[0] is the    *)
(* byteValue of the empty prefix, and for every byteValue and every k      *)
(* below its nextLen the index nextLo + k is below the length of the       *)
(* store; no lookup, of any query, and no listing of the keys of the Map   *)
(* or MapFaster indexes outside the store, and NewMapFaster slices within  *)
(* it.                                                                     *)
(***************************************************************************)
IndexValidity ==
    /\ panicked \in {NoPanic, "NewMap"}
    /\ m # NoMap =>
           /\ Len(m) >= 1
           /\ m[1].valid <=> <<>> \in keysOf
           /\ \A i \in 1..Len(m) : \A k \in 0..(m[i].nextLen - 1) :
                  m[i].nextLo + k < Len(m)
           /\ ret = NoRet =>
                  /\ \A q \in QueriesOf(keysOf) :
                         ~MapLookupString(m, q).panic /\ ~MapLookupBytes(m, q).panic
                  /\ \A a \in SuppliedSlices : ~AppendSortedKeys(m, a).panic
                  /\ ~NewMapFaster(m).panic
    /\ mf # NoMap =>
           \A i \in 1..Len(mf) : mf[i].next.lo + mf[i].next.len <= Len(mf)

\* a listing has returned from a store that was built in two blocks, in
\* which the children of a byteValue take up the store to its last element
IndexValidityWitness ==
    /\ m # NoMap
    /\ Len(b.all) > 1
    /\ \E i \in 1..Len(m) : m[i].nextLen > 1 /\ m[i].nextLo + m[i].nextLen = Len(m)
    /\ ret # NoRet
    /\ ret.op = "Map.AppendSortedKeys"

RECURSIVE FlatIndex(_, _, _)
\* the index (from 0), in the copy of all blocks to one slice, of the
\* element at offset off (from 0) of block blk
FlatIndex(all, blk, off) ==
    IF blk = 1 THEN off ELSE Len(all[blk - 1].data) + FlatIndex(all, blk - 1, off)

(***************************************************************************)
(* C14.  Indices handed out never change: for every byteValue of the       *)
(* builder that was handed a slice for its children, its nextLo, assigned  *)
(* from b.len when the slice was reserved, is the index in the store that  *)
(* build returns of the first element of that slice, in whichever block    *)
(* the slice lies and whatever capacity the blocks before it have left;    *)
(* and b.len is the length of that store.                                  *)
(***************************************************************************)
IndicesNeverChange ==
    /\ \A h \in 1..Len(b.handed) :
           LET bv   == b.handed[h].bv
               next == b.handed[h].next
           IN  /\ Deref(b, bv).nextLo = FlatIndex(b.all, next.blk, next.off)
               /\ m # NoMap =>
                      /\ m[FlatIndex(b.all, bv.blk, bv.idx - 1) + 1] = Deref(b, bv)
                      /\ \A k \in 0..(next.len - 1) :
                             m[Deref(b, bv).nextLo + k + 1]
                                 = b.all[next.blk].data[next.off + k + 1]
    /\ b # NoBuilder => b.len = Len(Flatten(b.all, 1))

\* a slice was handed out in a second block, started while the first had
\* capacity left, and after it another in that block at an offset
IndicesNeverChangeWitness ==
    /\ m # NoMap
    /\ Len(b.all) = 2
    /\ b.all[1].cap > Len(b.all[1].data)
    /\ \E h \in 1..Len(b.handed) :
           /\ b.handed[h].next.blk = 2
           /\ b.handed[h].next.off > 0
           /\ b.handed[h].next.len > 0

\* the bytes between the lowest and the highest of nb that are not in nb
Unused(nb) == {c \in Lowest(nb)..Highest(nb) : c \notin nb}

\* what a store built from the keys S holds where keys continue a prefix
WideSpanIn(store, S) ==
    \A p \in Prefixes(S) :
        LET nb == NextBytes(S, p)
            i  == IndexOf(store, p)
        IN  nb # {} =>
                /\ i >= 0
                /\ store[i + 1].nextOffset = Lowest(nb)
                /\ store[i + 1].nextLen = Highest(nb) - Lowest(nb) + 1
                /\ \A c \in Unused(nb) :
                       store[store[i + 1].nextLo + (c - Lowest(nb)) + 1] = zeroByteValue

\* the queries that pass through a slot no key uses
ThroughUnused(S) ==
    UNION {{Append(p, c) \o t : c \in Unused(NextBytes(S, p)),
                                t \in {<<>>} \cup Strings(BigSpanQueryBytes, 1, 1)}
           : p \in {x \in Prefixes(S) : NextBytes(S, x) # {}}}

Absent == Ok([value |-> ZeroValue, found |-> FALSE])

(***************************************************************************)
(* C15.  Wide span: in every store that NewMap or NewUint32Store returns,  *)
(* the byteValue of a prefix that keys continue has for nextOffset the     *)
(* lowest next byte of those keys and for nextLen the highest minus the    *)
(* lowest plus one; the byteValue reserved for a byte between them that no *)
(* key continues with is as make left it (not valid, nextLen 0), and every *)
(* lookup of a query that passes through it returns false.  For the keys   *)
(* "a!" and "a~" the byteValue of "a" has nextOffset 33 and nextLen 94,    *)
(* and two of its 94 children are valid.                                   *)
(***************************************************************************)
WideSpan ==
    /\ m # NoMap =>
           /\ WideSpanIn(m, DOMAIN src)
           /\ ret = NoRet =>
                  \A q \in ThroughUnused(DOMAIN src) :
                      MapLookupString(m, q) = Absent /\ MapLookupBytes(m, q) = Absent
    /\ u32 # NoMap =>
           /\ WideSpanIn(u32, DOMAIN src)
           /\ ret = NoRet =>
                  \A q \in ThroughUnused(DOMAIN src) :
                      /\ Uint32StoreLookupString(u32, q) = Absent
                      /\ Uint32StoreLookupBytes(u32, q) = Absent
    /\ DOMAIN src = {<<97, 33>>, <<97, 126>>} =>
           \A store \in {m, u32} \ {NoMap} :
               LET a == store[IndexOf(store, <<97>>) + 1]
               IN  /\ Len(store) = 96
                   /\ a.nextOffset = 33
                   /\ a.nextLen = 94
                   /\ Cardinality({k \in 0..93 : store[a.nextLo + k + 1].valid}) = 2

\* both stores are built from "a!" and "a~" with the values 1 and 2, and a
\* lookup in the Uint32Store has returned false; "a\"" leads to a byteValue
\* of the Map, where the lookup of it ends
WideSpanWitness ==
    /\ src = [k \in {<<97, 33>>, <<97, 126>>} |-> IF k = <<97, 33>> THEN 1 ELSE 2]
    /\ m # NoMap
    /\ u32 # NoMap
    /\ IndexOf(m, <<97, 34>>) > 0
    /\ <<97, 34>> \in ThroughUnused(DOMAIN src)
    /\ Cardinality(ThroughUnused(DOMAIN src)) > 92
    /\ ret = [op |-> "Uint32Store.LookupString",
              val |-> [value |-> ZeroValue, found |-> FALSE]]

\* the prefixes of the keys S that keys continue, in increasing order: the
\* order in which a depth-first walk of the keys comes to them
ContinuedInPreOrder(S) ==
    LET C == {p \in Prefixes(S) : NextBytes(S, p) # {}}
    IN  SortSlice(CHOOSE q \in [1..Cardinality(C) -> C] :
                      \A i, j \in DOMAIN q : i # j => q[i] # q[j])

\* the children are reserved in depth-first pre-order, each range from the
\* length the store had when it was reserved
ReservedInPreOrder(store, S) ==
    LET P  == ContinuedInPreOrder(S)
        bv(j) == store[IndexOf(store, P[j]) + 1]
    IN  /\ \A j \in 1..Len(P) :
               bv(j).nextLo = IF j = 1 THEN 1 ELSE bv(j - 1).nextLo + bv(j - 1).nextLen
        /\ Len(store) = IF Len(P) = 0 THEN 1 ELSE bv(Len(P)).nextLo + bv(Len(P)).nextLen

(***************************************************************************)
(* C16.  The builder that appends to one store and the builder that        *)
(* allocates blocks agree: for every source, whatever capacity append      *)
(* gives the store when it makes a new array for it, NewUint32Store        *)
(* returns the store that NewMap returns (and panics where NewMap does);   *)
(* nothing assigned through a *byteValue is missing from it.  Both lay the *)
(* children out in depth-first pre-order, each range from the length of    *)
(* the store at its reservation, which for the source of the Example is    *)
(* the store of its dump.                                                  *)
(***************************************************************************)
BuildersAgree ==
    /\ (u32 # NoMap /\ ret = NoRet) =>
           /\ \A keys \in AppendKeys(src, <<>>) :
                  LET r == NewMap(keys, src) IN ~r.panic /\ r.val = u32
           /\ ReservedInPreOrder(u32, DOMAIN src)
    /\ (u32 # NoMap /\ m # NoMap) => u32 = m
    /\ (m # NoMap /\ ret = NoRet) =>
           /\ \A keys \in AppendKeys(src, <<>>), policy \in GrowthPolicies :
                  LET r == NewUint32Store(keys, src, policy) IN ~r.panic /\ r.val = m
           /\ ReservedInPreOrder(m, DOMAIN src)
    /\ panicked = "NewUint32Store" =>
           \A keys \in AppendKeys(src, <<>>) : NewMap(keys, src).panic
    /\ panicked = "NewMap" =>
           \A keys \in AppendKeys(src, <<>>), policy \in GrowthPolicies :
               NewUint32Store(keys, src, policy).panic
    /\ src = ExampleSource =>
           \A store \in {m, u32} \ {NoMap} : store = ExampleStore

\* both stores are built from the source of the Example; append made new
\* arrays for the store of the Uint32Store while byteValues of the old were
\* pointed at, and under one choice of capacities also appended in place
BuildersAgreeWitness ==
    /\ src = ExampleSource
    /\ u32 # NoMap
    /\ m # NoMap
    /\ \A keys \in AppendKeys(src, <<>>) :
           /\ Len(NewUint32Store(keys, src, "exact").st.arrays) = 5
           /\ Len(NewUint32Store(keys, src, "double").st.arrays) \in 3..4

(***************************************************************************)
(* C17.  Empty: Empty() of a Map returns true exactly when the source it   *)
(* was built from had no keys.  The Map of the empty string alone has a    *)
(* store of one byteValue, which is valid, and is not Empty; the store of  *)
(* a Map that holds a key other than the empty string has more than one    *)
(* byteValue.                                                              *)
(***************************************************************************)
EmptyIffNoKeys ==
    m # NoMap =>
        /\ MapEmpty(m) <=> keysOf = {}
        /\ keysOf = {<<>>} => Len(m) = 1 /\ m[1].valid /\ ~MapEmpty(m)
        /\ (\E k \in keysOf : k # <<>>) => Len(m) > 1
        /\ (ret # NoRet /\ ret.op = "Map.Empty") => (ret.val <=> keysOf = {})

\* Empty() has returned false for the Map of the empty string alone
EmptyIffNoKeysWitness ==
    /\ m # NoMap
    /\ keysOf = {<<>>}
    /\ Len(m) = 1
    /\ ret # NoRet
    /\ ret.op = "Map.Empty"
    /\ ~ret.val

====
